---- MODULE Spec2Model ----
(***************************************************************************)
(* Soul Protocol Python client SDK (soul_protocol/client.py).              *)
(*                                                                         *)
(* A SoulClient holds registry_url and timeout.  Each operation builds one *)
(* request, hands it to requests.get / requests.post, and turns the        *)
(* response into a returned value or a raised exception.                   *)
(*                                                                         *)
(* Strings are sequences of tokens.  A token is a delimiter character      *)
(* (":" or "/"), a dot segment ("." or ".."), or a run of unreserved       *)
(* characters ("https", "host", "v1", ...); every string function the      *)
(* client uses (rstrip, quote, urljoin) acts on delimiters only, so it is  *)
(* computed token by token exactly as on characters.                       *)
(***************************************************************************)
EXTENDS Integers, Sequences, FiniteSets, TLC

(***************************************************************************)
(* Bounds of the model.                                                    *)
(***************************************************************************)
\* path segments a configured base address may carry (https://host/api/...)
MaxPathSegs == 1
\* trailing slashes a configured base address may carry
MaxTrailingSlashes == 1
\* tokens in a DID handed to resolve / claim
MaxDidLen == 1
\* concurrent callers sharing one client instance
NumThreads == 2

(***************************************************************************)
(* Python values: None, str, int, bool, dict, list, each tagged.           *)
(***************************************************************************)
PyNone == [tag |-> "None"]
PyStr(s) == [tag |-> "str", v |-> s]
\* a str held as a token string (a DID)
PyTokStr(toks) == [tag |-> "str", tokens |-> toks]
PyInt(n) == [tag |-> "int", v |-> n]
PyBool(b) == [tag |-> "bool", v |-> b]
PyDict(f) == [tag |-> "dict", items |-> f]
PyList(s) == [tag |-> "list", elems |-> s]
EmptyDict == PyDict([k \in {} |-> PyNone])

\* Python truthiness, as used by `if public_key:`
Truthy(x) ==
    CASE x.tag = "None" -> FALSE
      [] x.tag = "str"  -> x.v # ""
      [] x.tag = "int"  -> x.v # 0
      [] x.tag = "bool" -> x.v
      [] x.tag = "dict" -> DOMAIN x.items # {}
      [] x.tag = "list" -> x.elems # <<>>

\* d[k] = v on a dict
SetItem(d, k, v) ==
    PyDict([x \in (DOMAIN d.items) \cup {k} |-> IF x = k THEN v ELSE d.items[x]])

\* str(n)
str(n) == PyStr(ToString(n))

(***************************************************************************)
(* Token strings.                                                          *)
(***************************************************************************)
\* s.rstrip("/")
RECURSIVE rstrip(_)
rstrip(s) ==
    IF s # <<>> /\ s[Len(s)] = "/" THEN rstrip(SubSeq(s, 1, Len(s) - 1)) ELSE s

\* index of the first occurrence of tok in s at or after i, 0 when there is none
RECURSIVE Find(_, _, _)
Find(s, tok, i) ==
    IF i > Len(s) THEN 0 ELSE IF s[i] = tok THEN i ELSE Find(s, tok, i + 1)

\* s.split("/"): the segments between slashes, each a token string
RECURSIVE split(_)
split(s) ==
    LET i == Find(s, "/", 1)
    IN  IF i = 0 THEN <<s>>
        ELSE <<SubSeq(s, 1, i - 1)>> \o split(SubSeq(s, i + 1, Len(s)))

\* "/".join(segs)
RECURSIVE join(_)
join(segs) ==
    IF segs = <<>> THEN <<>>
    ELSE IF Len(segs) = 1 THEN segs[1]
    ELSE segs[1] \o <<"/">> \o join(Tail(segs))

\* urllib.parse.quote(s, safe=''): unreserved characters are kept, every
\* other character is percent-encoded
QuoteTok(tok) ==
    CASE tok = ":" -> "%3A"
      [] tok = "/" -> "%2F"
      [] OTHER     -> tok
quote(s) == [i \in 1..Len(s) |-> QuoteTok(s[i])]

\* schemes urllib.parse lists in uses_relative and uses_netloc
uses_relative == {"", "http", "https"}
uses_netloc == {"", "http", "https"}

\* the scheme part of urlsplit: the index of the ":" ending a scheme, or 0
SchemeEnd(url) ==
    LET i == Find(url, ":", 1)
    IN  IF i > 1 /\ \A k \in 1..(i - 1) : url[k] \notin {"/", ":"} THEN i ELSE 0

\* the netloc part of urlsplit, on what follows the scheme
SplitNetloc(scheme, rest) ==
    IF Len(rest) >= 2 /\ rest[1] = "/" /\ rest[2] = "/"
    THEN LET j == Find(rest, "/", 3)
         IN  [scheme |-> scheme,
              netloc |-> IF j = 0 THEN SubSeq(rest, 3, Len(rest)) ELSE SubSeq(rest, 3, j - 1),
              path |-> IF j = 0 THEN <<>> ELSE SubSeq(rest, j, Len(rest))]
    ELSE [scheme |-> scheme, netloc |-> <<>>, path |-> rest]

\* urllib.parse.urlsplit on a string without query or fragment
urlsplit(url, default_scheme) ==
    LET i == SchemeEnd(url)
    IN  IF i = 0 THEN SplitNetloc(default_scheme, url)
        ELSE SplitNetloc(join([k \in 1..(i - 1) |-> <<url[k]>>]),
                         SubSeq(url, i + 1, Len(url)))

\* the text of a scheme ("" when there is none)
SchemeStr(scheme) == IF Len(scheme) = 1 THEN scheme[1] ELSE ""

\* urlunsplit: whether "//" + netloc is written
HasAuthority(scheme, netloc, path) ==
    netloc # <<>>
    \/ (scheme # <<>> /\ SchemeStr(scheme) \in uses_netloc
        /\ SubSeq(path, 1, 2) # <<"/", "/">>)

\* urllib.parse.urlunsplit
urlunsplit(scheme, netloc, path) ==
    LET p == IF HasAuthority(scheme, netloc, path)
             THEN <<"/", "/">> \o netloc
                  \o (IF path # <<>> /\ path[1] # "/" THEN <<"/">> ELSE <<>>) \o path
             ELSE path
    IN  IF scheme # <<>> THEN scheme \o <<":">> \o p ELSE p

\* removal of "." and ".." segments, as urljoin does it
RECURSIVE ResolveDots(_, _)
ResolveDots(segments, resolved) ==
    IF segments = <<>> THEN resolved
    ELSE LET seg == Head(segments)
         IN  IF seg = <<"..">>
             THEN ResolveDots(Tail(segments),
                              IF Len(resolved) > 1
                              THEN SubSeq(resolved, 1, Len(resolved) - 1)
                              ELSE resolved)
             ELSE IF seg = <<".">> THEN ResolveDots(Tail(segments), resolved)
             ELSE ResolveDots(Tail(segments), Append(resolved, seg))

\* the middle segments of a relative join, empty ones filtered out
RECURSIVE FilterEmpty(_)
FilterEmpty(segs) ==
    IF segs = <<>> THEN <<>>
    ELSE IF Head(segs) = <<>> THEN FilterEmpty(Tail(segs))
    ELSE <<Head(segs)>> \o FilterEmpty(Tail(segs))

\* urljoin: the base's path up to its last slash
BaseParts(bp) == IF bp[Len(bp)] # <<>> THEN SubSeq(bp, 1, Len(bp) - 1) ELSE bp

\* urljoin: a relative path is appended to the base's, empty middle segments dropped
RelativeSegments(joined) ==
    IF Len(joined) <= 2 THEN joined
    ELSE <<joined[1]>> \o FilterEmpty(SubSeq(joined, 2, Len(joined) - 1))
         \o <<joined[Len(joined)]>>

\* urljoin: a path starting with "/" replaces the base's path
JoinSegments(bpath, upath) ==
    IF upath[1] = "/" THEN split(upath)
    ELSE RelativeSegments(BaseParts(split(bpath)) \o split(upath))

\* urljoin: dot segments resolved, a trailing one leaving a trailing slash
ResolvedPath(segments) ==
    LET r0 == ResolveDots(segments, <<>>)
    IN  IF segments[Len(segments)] \in {<<".">>, <<"..">>}
        THEN join(Append(r0, <<>>)) ELSE join(r0)

OrSlash(path) == IF path = <<>> THEN <<"/">> ELSE path

JoinSplit(b, u, url) ==
    IF u.scheme # b.scheme \/ SchemeStr(u.scheme) \notin uses_relative THEN url
    ELSE IF SchemeStr(u.scheme) \in uses_netloc /\ u.netloc # <<>>
    THEN urlunsplit(u.scheme, u.netloc, u.path)
    ELSE IF u.path = <<>>
    THEN urlunsplit(u.scheme,
                    IF SchemeStr(u.scheme) \in uses_netloc THEN b.netloc ELSE u.netloc,
                    b.path)
    ELSE urlunsplit(u.scheme,
                    IF SchemeStr(u.scheme) \in uses_netloc THEN b.netloc ELSE u.netloc,
                    OrSlash(ResolvedPath(JoinSegments(b.path, u.path))))

\* urllib.parse.urljoin(base, url)
urljoin(base, url) ==
    IF base = <<>> THEN url
    ELSE IF url = <<>> THEN base
    ELSE JoinSplit(urlsplit(base, <<>>), urlsplit(url, urlsplit(base, <<>>).scheme), url)

(***************************************************************************)
(* Exceptions: the classes of requests.exceptions and the builtins the     *)
(* client's code can raise, with their base classes.                       *)
(***************************************************************************)
Bases(cls) ==
    CASE cls = "HTTPError"               -> {"RequestException"}
      [] cls = "ConnectionError"         -> {"RequestException"}
      [] cls = "Timeout"                 -> {"RequestException"}
      [] cls = "ConnectTimeout"          -> {"ConnectionError", "Timeout"}
      [] cls = "ReadTimeout"             -> {"Timeout"}
      [] cls = "InvalidJSONError"        -> {"RequestException"}
      [] cls = "RequestsJSONDecodeError" -> {"InvalidJSONError", "JSONDecodeError"}
      [] cls = "JSONDecodeError"         -> {"ValueError"}
      [] cls = "RequestException"        -> {"OSError"}
      [] cls = "KeyError"                -> {"LookupError"}
      [] cls \in {"OSError", "LookupError", "ValueError", "TypeError"} -> {"Exception"}
      [] OTHER                           -> {}

\* isinstance(e, cls) for an exception e of class exc
RECURSIVE IsInstance(_, _)
IsInstance(exc, cls) ==
    exc = cls \/ \E b \in Bases(exc) : IsInstance(b, cls)

(***************************************************************************)
(* What a call hands back to its caller: a returned value or a raised      *)
(* exception; an HTTPError carries the response (status code and body).    *)
(***************************************************************************)
NoBody == [malformed |-> FALSE, value |-> PyNone]
Return(v) == [kind |-> "return", value |-> v, exc |-> "", status |-> 0, body |-> NoBody]
Raise(exc) == [kind |-> "raise", value |-> PyNone, exc |-> exc, status |-> 0, body |-> NoBody]
RaiseHTTPError(resp) ==
    [kind |-> "raise", value |-> PyNone, exc |-> "HTTPError",
     status |-> resp.status, body |-> resp.body]
NoOutcome == [kind |-> "none", value |-> PyNone, exc |-> "", status |-> 0, body |-> NoBody]

\* obj[key]: KeyError on a dict without the key, TypeError on anything that
\* is not a dict (None, a list or a str indexed by a str)
GetItem(obj, key) ==
    IF obj.tag # "dict" THEN Raise("TypeError")
    ELSE IF key \notin DOMAIN obj.items THEN Raise("KeyError")
    ELSE Return(obj.items[key])

\* d.get(key)
DictGet(d, key) == IF key \in DOMAIN d.items THEN d.items[key] ELSE PyNone

(***************************************************************************)
(* The transport's answers.                                                *)
(***************************************************************************)
\* requests.get / requests.post raising instead of answering
NetworkFailures == {"ConnectionError", "ConnectTimeout", "ReadTimeout"}
NetworkFailure(exc) == [kind |-> "error", exc |-> exc, status |-> 0, body |-> NoBody]
HttpResponse(status, body) == [kind |-> "http", exc |-> "", status |-> status, body |-> body]

\* Response.raise_for_status(): raises for 4xx and 5xx only
raise_for_status(status) == 400 <= status /\ status < 600

\* the class Response.json() raises on a body that is not JSON:
\* requests.exceptions.JSONDecodeError from requests 2.27 on, the json
\* module's own JSONDecodeError (a plain ValueError) before
JsonErrorClass(version) ==
    IF version = "2.27" THEN "RequestsJSONDecodeError" ELSE "JSONDecodeError"

\* the part of _get and _post after the request went out: the transport's
\* failure propagates, raise_for_status(), then response.json()
http_result(resp, version) ==
    IF resp.kind = "error" THEN Raise(resp.exc)
    ELSE IF raise_for_status(resp.status) THEN RaiseHTTPError(resp)
    ELSE IF resp.body.malformed THEN Raise(JsonErrorClass(version))
    ELSE Return(resp.body.value)

(***************************************************************************)
(* The operations' pure parts: request construction and result mapping.    *)
(***************************************************************************)
PathRegister == <<"/", "v1", "/", "souls", "/", "register">>
PathSouls == <<"/", "v1", "/", "souls">>
PathClaim == <<"/", "v1", "/", "souls", "/", "claim">>
PathVerify == <<"/", "v1", "/", "verify">>
PathRoot == <<"/">>
\* f"/v1/souls/{quote(did, safe='')}"
PathResolve(did) == PathSouls \o <<"/">> \o quote(did)

\* a mutant of register_payload: every optional key is always set
register_payload_always(name, base_model, platform, public_key, charter_hash, purpose) ==
    PyDict([k \in {"name", "baseModel", "platform", "publicKey", "charterHash", "purpose"} |->
        CASE k = "name" -> name
          [] k = "baseModel" -> base_model
          [] k = "platform" -> platform
          [] k = "publicKey" -> public_key
          [] k = "charterHash" -> charter_hash
          [] k = "purpose" -> purpose])

register_payload(name, base_model, platform, public_key, charter_hash, purpose) ==
    LET p0 == PyDict([k \in {"name", "baseModel", "platform"} |->
                  CASE k = "name" -> name
                    [] k = "baseModel" -> base_model
                    [] k = "platform" -> platform])
        p1 == IF Truthy(public_key) THEN SetItem(p0, "publicKey", public_key) ELSE p0
        p2 == IF Truthy(charter_hash) THEN SetItem(p1, "charterHash", charter_hash) ELSE p1
    IN  IF Truthy(purpose) THEN SetItem(p2, "purpose", purpose) ELSE p2

claim_payload(did, operator_did) ==
    LET p0 == PyDict([k \in {"did"} |-> PyTokStr(did)])
    IN  IF Truthy(operator_did) THEN SetItem(p0, "operatorDid", operator_did) ELSE p0

verify_payload(credential) == PyDict([k \in {"credential"} |-> credential])

list_params(status, limit, offset) ==
    LET p0 == PyDict([k \in {"limit", "offset"} |->
                  IF k = "limit" THEN str(limit) ELSE str(offset)])
    IN  IF Truthy(status) THEN SetItem(p0, "status", status) ELSE p0

RegisterResult(did, claim_url, verification_code, private_key) ==
    [tag |-> "RegisterResult", did |-> did, claim_url |-> claim_url,
     verification_code |-> verification_code, private_key |-> private_key]
VerifyResult(valid, checks) == [tag |-> "VerifyResult", valid |-> valid, checks |-> checks]

\* register, from the answer of _post on
register_result(r) ==
    IF r.kind = "raise" THEN r
    ELSE
      LET soul == GetItem(r.value, "soul")
      IN  IF soul.kind = "raise" THEN soul
          ELSE
            LET did == GetItem(soul.value, "did")
                claimUrl == GetItem(soul.value, "claimUrl")
                code == GetItem(soul.value, "verificationCode")
            IN  IF did.kind = "raise" THEN did
                ELSE IF claimUrl.kind = "raise" THEN claimUrl
                ELSE IF code.kind = "raise" THEN code
                ELSE Return(RegisterResult(did.value, claimUrl.value, code.value,
                                           DictGet(r.value, "privateKey")))

\* a mutant of resolve_result: the except clause catches every exception
resolve_result_catch_all(r) ==
    IF r.kind = "raise" THEN Return(PyNone) ELSE r

\* a mutant of resolve_result: the 404 is not caught
resolve_result_no_catch(r) == r

\* resolve, from the answer of _get on
resolve_result(r) ==
    IF r.kind = "raise" /\ IsInstance(r.exc, "HTTPError") /\ r.status = 404
    THEN Return(PyNone)
    ELSE r

\* a mutant of claim_result: a missing "soul" gives None instead of failing
claim_result_lenient(r) ==
    IF r.kind = "raise" THEN r
    ELSE IF r.value.tag = "dict" THEN Return(DictGet(r.value, "soul"))
    ELSE Return(PyNone)

\* claim, from the answer of _post on
claim_result(r) ==
    IF r.kind = "raise" THEN r ELSE GetItem(r.value, "soul")

\* verify, from the answer of _post on
verify_result(r) ==
    IF r.kind = "raise" THEN r
    ELSE
      LET valid == GetItem(r.value, "valid")
          checks == GetItem(r.value, "checks")
      IN  IF valid.kind = "raise" THEN valid
          ELSE IF checks.kind = "raise" THEN checks
          ELSE Return(VerifyResult(valid.value, checks.value))

\* list, from the answer of _get on
list_result(r) == r

\* stats, from the answer of _get on
stats_result(r) ==
    IF r.kind = "raise" THEN r ELSE GetItem(r.value, "stats")

(***************************************************************************)
(* Inputs.                                                                 *)
(***************************************************************************)
\* registry_url: str = "https://registry.soulprotocol.dev", timeout: int = 30
DefaultTimeout == 30
DefaultRegistryUrl == <<"https", ":", "/", "/", "registry.soulprotocol.dev">>

RECURSIVE Repeat(_, _)
Repeat(s, n) == IF n = 0 THEN <<>> ELSE s \o Repeat(s, n - 1)

\* the base addresses a caller may configure: the default origin, with up
\* to MaxPathSegs path segments and up to MaxTrailingSlashes trailing slashes
RegistryUrls ==
    {DefaultRegistryUrl \o Repeat(<<"/", "api">>, p) \o Repeat(<<"/">>, s) :
        p \in 0..MaxPathSegs, s \in 0..MaxTrailingSlashes}
Timeouts == {DefaultTimeout, 5}
\* the releases of requests a build may install
RequestsVersions == {"2.26", "2.27"}

Threads == 1..NumThreads

\* an Optional[str] argument: omitted, empty, or given
OptStr == {PyNone, PyStr(""), PyStr("x")}
StatusFilters == {PyNone, PyStr(""), PyStr("claimed")}
Limits == {100, 1}
Offsets == {0}
Credentials == {EmptyDict, PyDict([k \in {"issuer"} |-> PyStr("x")])}

DidAlphabet == {"did", ":", "/", ".."}
RECURSIVE SeqsUpTo(_, _)
SeqsUpTo(S, n) ==
    IF n = 0 THEN {<<>>}
    ELSE LET shorter == SeqsUpTo(S, n - 1)
         IN  shorter \cup {Append(q, a) : q \in {r \in shorter : Len(r) = n - 1}, a \in S}
\* a well-formed DID, did:<method>:<identifier>
SoulDid == <<"did", ":", "soul", ":", "abc">>
\* the DIDs a caller may pass: the well-formed one and every token string
\* of up to MaxDidLen tokens (a str argument is not checked by the client)
DIDs == SeqsUpTo(DidAlphabet, MaxDidLen) \cup {SoulDid}

(***************************************************************************)
(* Response bodies the registry may send, per operation.                   *)
(***************************************************************************)
Json(v) == [malformed |-> FALSE, value |-> v]
NotJson == [malformed |-> TRUE, value |-> PyNone]

\* a dict with the keys K, each with the value vals[k]
DictOf(K, vals) == PyDict([k \in K |-> vals[k]])
DictsOver(keys, vals) == {DictOf(K, vals) : K \in SUBSET keys}

SoulKeys == {"did", "didDocument", "birthCertificate", "status", "createdAt"}
SoulVals == [k \in SoulKeys |-> PyStr(k)]
FullSoul == DictOf(SoulKeys, SoulVals)
\* the full Soul record, the records lacking one field, and the empty one
SoulBodies == {FullSoul, EmptyDict} \cup {DictOf(SoulKeys \ {k}, SoulVals) : k \in SoulKeys}

RegisteredKeys == {"did", "claimUrl", "verificationCode"}
RegisteredSouls == DictsOver(RegisteredKeys, [k \in RegisteredKeys |-> PyStr(k)]) \cup {PyNone}
RegisterBodies ==
    {DictOf(K, [k \in {"soul", "privateKey"} |->
                    IF k = "soul" THEN soul ELSE PyList(<<1, 2>>)]) :
        K \in SUBSET {"soul", "privateKey"}, soul \in RegisteredSouls}

JsonBodies(op) ==
    CASE op = "register" -> RegisterBodies
      [] op = "resolve"  -> SoulBodies
      [] op = "claim"    -> DictsOver({"soul"}, [k \in {"soul"} |-> FullSoul])
      [] op = "verify"   -> DictsOver({"valid", "checks"},
                                [k \in {"valid", "checks"} |->
                                    IF k = "valid" THEN PyBool(FALSE) ELSE EmptyDict])
      [] op = "list"     -> DictsOver({"souls", "total"},
                                [k \in {"souls", "total"} |->
                                    IF k = "souls" THEN PyList(<<>>) ELSE PyInt(0)])
      [] op = "stats"    -> DictsOver({"stats"}, [k \in {"stats"} |-> EmptyDict])

\* a body is not JSON, or is JSON: null, a list, or an object
Bodies(op) == {NotJson, Json(PyNone), Json(PyList(<<>>))} \cup {Json(v) : v \in JsonBodies(op)}

Statuses == {200, 304, 404, 409, 500}

Responses(op) ==
    {NetworkFailure(e) : e \in NetworkFailures}
        \cup {HttpResponse(st, b) : st \in Statuses, b \in Bodies(op)}

(***************************************************************************)
(* State.                                                                  *)
(***************************************************************************)
VARIABLES
    registry_url,      \* self.registry_url
    timeout,           \* self.timeout
    ctor,              \* the arguments __init__ was called with
    requests_version,  \* the release of requests the build installed
    pc,                \* per caller: "idle", "sent" (inside requests.get/post), "done"
    call,              \* per caller: the operation invoked and its arguments
    request,           \* per caller: the request handed to requests.get/post
    sent,              \* per caller: requests issued by the current invocation
    response,          \* per caller: what the transport answered
    outcome            \* per caller: what the call handed back

vars == <<registry_url, timeout, ctor, requests_version,
          pc, call, request, sent, response, outcome>>

NoCall == [op |-> "none"]
NoRequest == [method |-> "", url |-> <<>>, params |-> PyNone, json |-> PyNone,
              headers |-> EmptyDict, timeout |-> 0]
NoResponse == [kind |-> "none", exc |-> "", status |-> 0, body |-> NoBody]

\* SoulClient.__init__
Init ==
    /\ ctor \in [registry_url : RegistryUrls, timeout : Timeouts]
    /\ registry_url = rstrip(ctor.registry_url)
    /\ timeout = ctor.timeout
    /\ requests_version \in RequestsVersions
    /\ pc = [t \in Threads |-> "idle"]
    /\ call = [t \in Threads |-> NoCall]
    /\ request = [t \in Threads |-> NoRequest]
    /\ sent = [t \in Threads |-> 0]
    /\ response = [t \in Threads |-> NoResponse]
    /\ outcome = [t \in Threads |-> NoOutcome]

(***************************************************************************)
(* _get and _post up to the point where the request is handed over.        *)
(***************************************************************************)
\* a mutant of _get: the timeout is consumed from the client
_get_mutating(t, path, params) ==
    /\ request' = [request EXCEPT ![t] =
           [method |-> "GET", url |-> urljoin(registry_url, path), params |-> params,
            json |-> PyNone, headers |-> EmptyDict, timeout |-> timeout]]
    /\ sent' = [sent EXCEPT ![t] = @ + 1]
    /\ pc' = [pc EXCEPT ![t] = "sent"]
    /\ timeout' = 0
    /\ UNCHANGED registry_url

_get(t, path, params) ==
    /\ request' = [request EXCEPT ![t] =
           [method |-> "GET", url |-> urljoin(registry_url, path), params |-> params,
            json |-> PyNone, headers |-> EmptyDict, timeout |-> timeout]]
    /\ sent' = [sent EXCEPT ![t] = @ + 1]
    /\ pc' = [pc EXCEPT ![t] = "sent"]
    /\ UNCHANGED <<registry_url, timeout>>

_post(t, path, payload) ==
    /\ request' = [request EXCEPT ![t] =
           [method |-> "POST", url |-> urljoin(registry_url, path), params |-> PyNone,
            json |-> payload,
            headers |-> PyDict([k \in {"Content-Type"} |-> PyStr("application/json")]),
            timeout |-> timeout]]
    /\ sent' = [sent EXCEPT ![t] = @ + 1]
    /\ pc' = [pc EXCEPT ![t] = "sent"]
    /\ UNCHANGED <<registry_url, timeout>>

\* a caller enters an operation
Enter(t, c) ==
    /\ pc[t] = "idle"
    /\ call' = [call EXCEPT ![t] = c]
    /\ UNCHANGED <<ctor, requests_version, response, outcome>>

\* the operation hands its result back to the caller
Leave(t, op, resp, result) ==
    /\ pc[t] = "sent"
    /\ call[t].op = op
    /\ response' = [response EXCEPT ![t] = resp]
    /\ outcome' = [outcome EXCEPT ![t] = result]
    /\ pc' = [pc EXCEPT ![t] = "done"]
    /\ UNCHANGED <<registry_url, timeout, ctor, requests_version, call, request, sent>>

(***************************************************************************)
(* The operations, each up to its request ...                              *)
(***************************************************************************)
register(t, name, base_model, platform, public_key, charter_hash, purpose) ==
    /\ Enter(t, [op |-> "register", name |-> name, base_model |-> base_model,
                 platform |-> platform, public_key |-> public_key,
                 charter_hash |-> charter_hash, purpose |-> purpose])
    /\ _post(t, PathRegister,
             register_payload(name, base_model, platform, public_key, charter_hash, purpose))

resolve(t, did) ==
    /\ Enter(t, [op |-> "resolve", did |-> did])
    /\ _get(t, PathResolve(did), PyNone)

claim(t, did, operator_did) ==
    /\ Enter(t, [op |-> "claim", did |-> did, operator_did |-> operator_did])
    /\ _post(t, PathClaim, claim_payload(did, operator_did))

verify(t, credential) ==
    /\ Enter(t, [op |-> "verify", credential |-> credential])
    /\ _post(t, PathVerify, verify_payload(credential))

list(t, status, limit, offset) ==
    /\ Enter(t, [op |-> "list", status |-> status, limit |-> limit, offset |-> offset])
    /\ _get(t, PathSouls, list_params(status, limit, offset))

stats(t) ==
    /\ Enter(t, [op |-> "stats"])
    /\ _get(t, PathRoot, PyNone)

(***************************************************************************)
(* ... and from the transport's answer to the caller.                      *)
(***************************************************************************)
register_return(t, resp) ==
    Leave(t, "register", resp, register_result(http_result(resp, requests_version)))

\* a mutant of resolve_return: a 404 is retried once more
resolve_return_retry(t, resp) ==
    IF resp.kind = "http" /\ resp.status = 404 /\ sent[t] < 2
    THEN /\ pc[t] = "sent"
         /\ call[t].op = "resolve"
         /\ sent' = [sent EXCEPT ![t] = @ + 1]
         /\ UNCHANGED <<registry_url, timeout, ctor, requests_version,
                        pc, call, request, response, outcome>>
    ELSE Leave(t, "resolve", resp, resolve_result(http_result(resp, requests_version)))

resolve_return(t, resp) ==
    Leave(t, "resolve", resp, resolve_result(http_result(resp, requests_version)))

claim_return(t, resp) ==
    Leave(t, "claim", resp, claim_result(http_result(resp, requests_version)))

verify_return(t, resp) ==
    Leave(t, "verify", resp, verify_result(http_result(resp, requests_version)))

list_return(t, resp) ==
    Leave(t, "list", resp, list_result(http_result(resp, requests_version)))

stats_return(t, resp) ==
    Leave(t, "stats", resp, stats_result(http_result(resp, requests_version)))

\* the caller takes the result; the invocation's frame is gone
Finish(t) ==
    /\ pc[t] = "done"
    /\ pc' = [pc EXCEPT ![t] = "idle"]
    /\ call' = [call EXCEPT ![t] = NoCall]
    /\ request' = [request EXCEPT ![t] = NoRequest]
    /\ sent' = [sent EXCEPT ![t] = 0]
    /\ response' = [response EXCEPT ![t] = NoResponse]
    /\ outcome' = [outcome EXCEPT ![t] = NoOutcome]
    /\ UNCHANGED <<registry_url, timeout, ctor, requests_version>>

(***************************************************************************)
(* One caller, every input.                                                *)
(***************************************************************************)
Name == PyStr("n")
BaseModel == PyStr("m")
Platform == PyStr("p")

Next ==
    \/ \E pk \in OptStr, ch \in OptStr, pu \in OptStr :
           register(1, Name, BaseModel, Platform, pk, ch, pu)
    \/ \E did \in DIDs : resolve(1, did)
    \/ \E did \in DIDs, od \in OptStr : claim(1, did, od)
    \/ \E cr \in Credentials : verify(1, cr)
    \/ \E st \in StatusFilters, li \in Limits, off \in Offsets : list(1, st, li, off)
    \/ stats(1)
    \/ \E resp \in Responses("register") : register_return(1, resp)
    \/ \E resp \in Responses("resolve") : resolve_return(1, resp)
    \/ \E resp \in Responses("claim") : claim_return(1, resp)
    \/ \E resp \in Responses("verify") : verify_return(1, resp)
    \/ \E resp \in Responses("list") : list_return(1, resp)
    \/ \E resp \in Responses("stats") : stats_return(1, resp)
    \/ Finish(1)

Spec == Init /\ [][Next]_vars

(***************************************************************************)
(* Several callers sharing the client, interleaved at the transport.       *)
(***************************************************************************)
InitConc ==
    /\ Init
    /\ ctor.registry_url \in {DefaultRegistryUrl,
                              DefaultRegistryUrl
                                  \o Repeat(<<"/", "api">>, MaxPathSegs)
                                  \o Repeat(<<"/">>, MaxTrailingSlashes)}
    /\ requests_version = "2.27"

ConcResponses ==
    {NetworkFailure("ConnectionError"), HttpResponse(404, NotJson),
     HttpResponse(200, Json(EmptyDict))}

NextConc ==
    \E t \in Threads :
        \/ \E pk \in {PyNone, PyStr("x")} :
               register(t, Name, BaseModel, Platform, pk, PyNone, PyNone)
        \/ resolve(t, SoulDid)
        \/ claim(t, SoulDid, PyNone)
        \/ verify(t, EmptyDict)
        \/ \E st \in {PyNone, PyStr("claimed")} : list(t, st, 100, 0)
        \/ stats(t)
        \/ \E resp \in ConcResponses : register_return(t, resp)
        \/ \E resp \in ConcResponses : resolve_return(t, resp)
        \/ \E resp \in ConcResponses : claim_return(t, resp)
        \/ \E resp \in ConcResponses : verify_return(t, resp)
        \/ \E resp \in ConcResponses : list_return(t, resp)
        \/ \E resp \in ConcResponses : stats_return(t, resp)
        \/ Finish(t)

SpecConc == InitConc /\ [][NextConc]_vars

(***************************************************************************)
(* Properties.                                                             *)
(***************************************************************************)
Done(t) == pc[t] = "done"
Built(t) == pc[t] \in {"sent", "done"}
GotHttp(t) == Done(t) /\ response[t].kind = "http"
Is2xx(status) == 200 <= status /\ status < 300

\* the registry error kind: requests.HTTPError, raised by raise_for_status
IsRegistryError(exc) == IsInstance(exc, "HTTPError")
\* the transport error kind: what requests raises when the registry cannot
\* be reached (requests.ConnectionError, requests.Timeout)
IsTransportError(exc) == IsInstance(exc, "ConnectionError") \/ IsInstance(exc, "Timeout")

\* C1: resolve(did), for any DID, returns None and does not raise when the
\* registry answers the GET with HTTP 404.
C1_ResolveNotFound ==
    \A t \in Threads :
        (GotHttp(t) /\ call[t].op = "resolve" /\ response[t].status = 404)
            => outcome[t] = Return(PyNone)

C1_Witness ==
    \E t \in Threads :
        /\ GotHttp(t) /\ call[t].op = "resolve" /\ response[t].status = 404
        /\ call[t].did = SoulDid
        /\ outcome[t].kind = "return"

\* C2: for every operation, any non-2xx HTTP response other than a 404
\* answered to resolve surfaces as a registry error (HTTPError) carrying the
\* response's status code and body; it is never a returned result.
C2_NonSuccessIsRegistryError ==
    \A t \in Threads :
        (/\ GotHttp(t)
         /\ ~Is2xx(response[t].status)
         /\ ~(call[t].op = "resolve" /\ response[t].status = 404))
            => /\ outcome[t].kind = "raise"
               /\ IsRegistryError(outcome[t].exc)
               /\ outcome[t].status = response[t].status
               /\ outcome[t].body = response[t].body

\* C3: for every operation, a network-level failure surfaces as a transport
\* error (ConnectionError or Timeout), which is not a registry error; in
\* particular resolve raises it and returns nothing.
C3_NetworkFailureIsTransportError ==
    \A t \in Threads :
        (Done(t) /\ response[t].kind = "error")
            => /\ outcome[t].kind = "raise"
               /\ outcome[t].exc = response[t].exc
               /\ IsTransportError(outcome[t].exc)
               /\ ~IsRegistryError(outcome[t].exc)

C3_Witness ==
    \E t \in Threads :
        /\ Done(t) /\ call[t].op = "resolve"
        /\ response[t] = NetworkFailure("ConnectionError")
        /\ outcome[t].kind = "raise"

\* C4: for every operation, a 2xx response whose body is not JSON makes the
\* call fail with the transport error kind (the kind of connection and
\* timeout failures), not with a registry error and not with a result.
C4_MalformedBodyIsTransportError ==
    \A t \in Threads :
        (GotHttp(t) /\ Is2xx(response[t].status) /\ response[t].body.malformed)
            => /\ outcome[t].kind = "raise"
               /\ IsTransportError(outcome[t].exc)
               /\ ~IsRegistryError(outcome[t].exc)

\* the optional inputs of a call, by the payload key each one fills
OptionalInputs(c) ==
    CASE c.op = "register" ->
             [k \in {"publicKey", "charterHash", "purpose"} |->
                 CASE k = "publicKey" -> c.public_key
                   [] k = "charterHash" -> c.charter_hash
                   [] k = "purpose" -> c.purpose]
      [] c.op = "claim" -> [k \in {"operatorDid"} |-> c.operator_did]
      [] c.op = "list" -> [k \in {"status"} |-> c.status]
      [] OTHER -> [k \in {} |-> PyNone]

\* the key/value payload of a request: the JSON body of a POST, the query of a GET
Payload(req) ==
    IF req.method = "POST" THEN req.json.items
    ELSE IF req.params.tag = "dict" THEN req.params.items
    ELSE [k \in {} |-> PyNone]

\* C5: in every request built by register, claim and list, an optional key
\* is in the payload only when the caller supplied that input (and then
\* carries it), an omitted input's key is absent, and no key carries null.
C5_OptionalKeysOnlyWhenSupplied ==
    \A t \in Threads :
        (Built(t) /\ call[t].op \in {"register", "claim", "list"})
            => LET opt == OptionalInputs(call[t])
                   payload == Payload(request[t])
               IN  /\ \A k \in DOMAIN opt :
                        /\ k \in DOMAIN payload
                               => (opt[k].tag # "None" /\ payload[k] = opt[k])
                        /\ opt[k].tag = "None" => k \notin DOMAIN payload
                   /\ \A k \in DOMAIN payload : payload[k].tag # "None"

C5_Witness ==
    \E t \in Threads :
        /\ Built(t) /\ call[t].op = "register"
        /\ call[t].public_key = PyNone
        /\ call[t].purpose = PyStr("x")
        /\ DOMAIN Payload(request[t]) = {"name", "baseModel", "platform", "purpose"}

\* C6: no operation mutates the client: under any interleaving of calls the
\* base address and the timeout are those set at construction, every
\* request carries that timeout, and two calls with the same arguments send
\* the same request whatever else has run.
C6_ClientStateImmutable ==
    /\ registry_url = rstrip(ctor.registry_url)
    /\ timeout = ctor.timeout
    /\ \A t \in Threads : Built(t) => request[t].timeout = ctor.timeout
    /\ \A t1 \in Threads, t2 \in Threads :
           (Built(t1) /\ Built(t2) /\ call[t1].op = call[t2].op /\ call[t1] = call[t2])
               => request[t1] = request[t2]

C6_Witness ==
    \E t1 \in Threads, t2 \in Threads :
        /\ t1 # t2
        /\ pc[t1] = "sent" /\ call[t1].op = "list"
        /\ Done(t2) /\ call[t2] = call[t1]
        /\ outcome[t2].kind = "raise"

\* C7: each invocation issues exactly one HTTP request: none before the
\* call, one while it waits, and still one when it has returned or failed,
\* whatever the transport answered.
C7_OneRequestPerInvocation ==
    \A t \in Threads :
        /\ pc[t] = "idle" => sent[t] = 0
        /\ Built(t) => sent[t] = 1

C7_Witness ==
    \E t \in Threads :
        /\ GotHttp(t) /\ call[t].op = "resolve" /\ response[t].status = 404
        /\ sent[t] = 1

\* whether a decoded body lacks a field its operation's result requires
HasKeys(v, keys) == v.tag = "dict" /\ keys \subseteq DOMAIN v.items
LacksRequired(op, v) ==
    CASE op = "register" -> ~(HasKeys(v, {"soul"}) /\ HasKeys(v.items["soul"], RegisteredKeys))
      [] op = "resolve"  -> ~HasKeys(v, SoulKeys)
      [] op = "claim"    -> ~HasKeys(v, {"soul"})
      [] op = "verify"   -> ~HasKeys(v, {"valid", "checks"})
      [] op = "list"     -> ~HasKeys(v, {"souls", "total"})
      [] op = "stats"    -> ~HasKeys(v, {"stats"})

GotJson(t) ==
    GotHttp(t) /\ Is2xx(response[t].status) /\ ~response[t].body.malformed

\* C9 as stated: for every operation, a 2xx JSON response lacking a field
\* the operation's result requires yields a failure, never a result.
C9_EveryOperationValidates ==
    \A t \in Threads :
        (GotJson(t) /\ LacksRequired(call[t].op, response[t].body.value))
            => outcome[t].kind = "raise"

\* C9 as amended: register, claim, verify and stats fail (KeyError, or
\* TypeError on a non-object) on a 2xx JSON response lacking a field they
\* read, and register's private key is None when privateKey is absent;
\* resolve and list return the decoded body as it is, whatever it holds.
C9_ValidatesWhatItReads ==
    \A t \in Threads :
        GotJson(t) =>
            LET op == call[t].op
                v == response[t].body.value
            IN  /\ (op \in {"register", "claim", "verify", "stats"} /\ LacksRequired(op, v))
                       => /\ outcome[t].kind = "raise"
                          /\ outcome[t].exc \in {"KeyError", "TypeError"}
                /\ (op \in {"register", "claim", "verify", "stats"} /\ ~LacksRequired(op, v))
                       => outcome[t].kind = "return"
                /\ (op = "register" /\ ~LacksRequired(op, v))
                       => outcome[t].value.private_key =
                              (IF "privateKey" \in DOMAIN v.items
                               THEN v.items["privateKey"] ELSE PyNone)
                /\ op \in {"resolve", "list"} => outcome[t] = Return(v)

C9_Witness ==
    \E t \in Threads :
        /\ GotJson(t) /\ call[t].op = "claim"
        /\ response[t].body = Json(EmptyDict)
        /\ outcome[t].exc = "KeyError"

\* the path of an operation's endpoint
OpPath(c) ==
    CASE c.op = "register" -> PathRegister
      [] c.op = "resolve"  -> PathResolve(c.did)
      [] c.op = "claim"    -> PathClaim
      [] c.op = "verify"   -> PathVerify
      [] c.op = "list"     -> PathSouls
      [] c.op = "stats"    -> PathRoot

\* a DID that is itself a dot segment, which urljoin resolves away
IsDotSegment(did) == did \in {<<".">>, <<"..">>}

\* C10: for every operation and every configured base address, the URL
\* requested is the base address with its trailing slashes removed,
\* followed by the operation's path (stated here for the calls whose DID
\* is not a dot segment).
C10_UrlIsBasePlusPath ==
    \A t \in Threads :
        (Built(t) /\ ~(call[t].op \in {"resolve", "claim"} /\ IsDotSegment(call[t].did)))
            => request[t].url = rstrip(ctor.registry_url) \o OpPath(call[t])
====
